---- MODULE Spec2Model ----
(***************************************************************************)
(* Model of the bulk mutation handlers of DynamicModelViewSet              *)
(* (dynamic_rest/viewsets.py): create-many, update-many, patch-all (loop   *)
(* and query mode) and destroy-many, running against one table of the      *)
(* external store.  The table is the Dog model of the test application     *)
(* (columns id, name, fur_color, origin; name is unique).                  *)
(* Further parts: the dispatch of create, update and destroy between the   *)
(* bulk and the single-object path and the relation endpoint               *)
(* (SpecDispatch); the parsers of the patch-all, include[]/exclude[] and   *)
(* filter{} parameters, the field set of a serializer and the field        *)
(* lookups of dynamic_rest/meta.py (SpecParse); the sideloading processor  *)
(* (SpecFlatten).                                                          *)
(***************************************************************************)
EXTENDS Integers, Sequences, FiniteSets, TLC

\* ------------------------------------------------------------------ bounds
\* Largest primary key of the table.
MaxId == 2
\* Longest create-many payload.
MaxCreate == 2
\* Longest destroy-many payload.
MaxDestroy == 2
\* Longest update-many payload.
MaxUpdate == 2
\* Largest number of fields in a patch-all payload.
MaxPatch == 2

\* ----------------------------------------------------------- value domains
Ids == 1..MaxId
\* Values of the unique column "name" ("" is the blank name that the
\* serializer rejects).
Names == {"a", "b"}
Furs == {"x", "y"}
Origins == {"here", "there"}
\* Column defaults of a row created through the serializer.
DefaultFur == "x"
DefaultOrigin == "here"
\* The viewset's base queryset keeps the rows of this origin.
QuerysetOrigin == "here"
\* Root key of the response envelope (the serializer's plural name).
PluralName == "dogs"

Rows == [id : Ids, name : Names, fur_color : Furs, origin : Origins]

\* ----------------------------------------------------------------- helpers
Range(s) == {s[i] : i \in 1..Len(s)}

MaxOf(S) == IF S = {} THEN 0 ELSE CHOOSE m \in S : \A n \in S : n <= m

\* Sequences over S of length 1..n.
SeqsUpTo(S, n) == UNION {[1..k -> S] : k \in 1..n}

\* The rows of set R as a sequence ordered by primary key.
RECURSIVE OrderById(_)
OrderById(R) ==
    IF R = {} THEN <<>>
    ELSE LET r == CHOOSE x \in R : \A y \in R : x.id <= y.id
         IN <<r>> \o OrderById(R \ {r})

\* The table's integrity constraints: primary key and unique name.
Consistent(s) ==
    \A r1, r2 \in s : (r1.id = r2.id \/ r1.name = r2.name) => r1 = r2

\* Every table content the store can hold.
Stores ==
    LET Absent == [id |-> 0]
        Slot(i) == {Absent} \cup {r \in Rows : r.id = i}
        Pick == {f \in [Ids -> {Absent} \cup Rows] : \A i \in Ids : f[i] \in Slot(i)}
    IN {s \in {{f[i] : i \in {j \in Ids : f[j] # Absent}} : f \in Pick} : Consistent(s)}

\* ------------------------------------------------------------------- state
VARIABLES
    store,      \* the table: a set of rows
    pre,        \* the table as it was when the last request arrived
    request,    \* the last request handled
    response    \* the response (or the exception) the last request ended with

vars == <<store, pre, request, response>>

NoRequest == [op |-> "none"]
NoResponse == [status |-> 0]

\* The worker is between two requests.
Idle == request = NoRequest

\* ------------------------------------------------------------ store calls
\* serializer.is_valid() for one create entry: the name is required and
\* may not be blank.
is_valid(entry) == entry.name # ""

\* The text of the ValidationError of an entry.
ErrorDetail(entry) == "This field may not be blank."

\* perform_create: INSERT of one row; the store raises IntegrityError when
\* the unique name is taken.  The new primary key is the largest one + 1.
perform_create(s, entry) ==
    IF \E r \in s : r.name = entry.name
    THEN [ok |-> FALSE, store |-> s, instance |-> [id |-> 0]]
    ELSE LET row == [id |-> MaxOf({r.id : r \in s}) + 1, name |-> entry.name,
                     fur_color |-> DefaultFur, origin |-> DefaultOrigin]
         IN [ok |-> TRUE, store |-> s \cup {row}, instance |-> row]

\* serializer.to_representation(instance)
to_representation(row) ==
    [id |-> row.id, name |-> row.name, fur |-> row.fur_color, origin |-> row.origin]

\* SideloadingProcessor(serializer, items).data: the envelope of the items.
SideloadingProcessor(items) == PluralName :> items

\* An exception that no handler catches ends the request with a 500.
ServerError(exc) == [status |-> 500, exc |-> exc]

\* ------------------------------------------------------------ create-many
\* First loop of _create_many over data[i..]: validate each entry, and in
\* partial mode persist it at once.  acc carries store, items, errors,
\* serializers and the exception raised by a persistence call, if any.
RECURSIVE CreateLoop(_, _, _, _)
CreateLoop(data, i, partial, acc) ==
    IF i > Len(data) \/ acc.raised # "" THEN acc
    ELSE LET entry == data[i] IN
         IF ~is_valid(entry)
         THEN CreateLoop(data, i + 1, partial,
                  [acc EXCEPT !.errors = Append(@,
                      [detail |-> ErrorDetail(entry), source |-> entry])])
         ELSE IF partial
         THEN LET c == perform_create(acc.store, entry) IN
              IF c.ok
              THEN CreateLoop(data, i + 1, partial,
                       [acc EXCEPT !.store = c.store,
                                   !.items = Append(@, to_representation(c.instance))])
              ELSE [acc EXCEPT !.raised = "IntegrityError"]
         ELSE CreateLoop(data, i + 1, partial,
                  [acc EXCEPT !.serializers = Append(@, entry)])

\* Second loop of _create_many: persist the validated serializers in order.
RECURSIVE PersistLoop(_, _, _)
PersistLoop(serializers, i, acc) ==
    IF i > Len(serializers) \/ acc.raised # "" THEN acc
    ELSE LET c == perform_create(acc.store, serializers[i]) IN
         IF c.ok
         THEN PersistLoop(serializers, i + 1,
                  [acc EXCEPT !.store = c.store,
                              !.items = Append(@, to_representation(c.instance))])
         ELSE [acc EXCEPT !.raised = "IntegrityError"]

\* _create_many, lines 646-657: the validation loop over the whole payload.
ValidatePhase(s, data, partial) ==
    CreateLoop(data, 1, partial,
               [store |-> s, items |-> <<>>, errors |-> <<>>,
                serializers |-> <<>>, raised |-> ""])

\* Mutant: the deferred serializers are persisted although errors were found.
PersistPhaseIgnoringErrors(acc, partial) ==
    IF ~partial /\ acc.raised = ""
    THEN PersistLoop(acc.serializers, 1, acc)
    ELSE acc

\* _create_many, lines 658-661: without partial creation the serializers are
\* persisted only when no entry produced an error.
PersistPhase(acc, partial) ==
    IF ~partial /\ acc.errors = <<>> /\ acc.raised = ""
    THEN PersistLoop(acc.serializers, 1, acc)
    ELSE acc

\* Mutant: the status is "created" as soon as one item was created.
CreateResponseByItems(acc) ==
    LET result == IF acc.errors # <<>>
                  THEN SideloadingProcessor(acc.items) @@ ("errors" :> acc.errors)
                  ELSE SideloadingProcessor(acc.items)
        code == IF acc.items # <<>> THEN 201 ELSE 400
    IN IF acc.raised # "" THEN ServerError(acc.raised)
       ELSE [status |-> code, body |-> result]

\* _create_many, lines 663-672: envelope of the items, the errors if any,
\* and the status code.
CreateResponse(acc) ==
    LET result == IF acc.errors # <<>>
                  THEN SideloadingProcessor(acc.items) @@ ("errors" :> acc.errors)
                  ELSE SideloadingProcessor(acc.items)
        code == IF acc.errors = <<>> THEN 201 ELSE 400
    IN IF acc.raised # "" THEN ServerError(acc.raised)
       ELSE [status |-> code, body |-> result]

\* Mutant: a batch with errors is rolled back, also with partial creation.
_create_many_all_or_nothing(s, data, partial) ==
    LET acc == PersistPhase(ValidatePhase(s, data, partial), partial)
    IN [store |-> IF acc.errors # <<>> THEN s ELSE acc.store,
        response |-> CreateResponse(acc)]

\* _create_many(data): the store it leaves and the response it returns.
_create_many(s, data, partial) ==
    LET acc == PersistPhase(ValidatePhase(s, data, partial), partial)
    IN [store |-> acc.store, response |-> CreateResponse(acc)]

CreateEntries == [name : Names \cup {""}]

\* POST with a list payload, handled by a viewset whose
\* ENABLE_BULK_PARTIAL_CREATION setting is partial.
create(data, partial) ==
    /\ Idle
    /\ MaxOf({r.id : r \in store}) + Len(data) <= MaxId
    /\ LET out == _create_many(store, data, partial) IN
        /\ store' = out.store
        /\ response' = out.response
    /\ pre' = store
    /\ request' = [op |-> "create", data |-> data,
                   ENABLE_BULK_PARTIAL_CREATION |-> partial]

\* ------------------------------------------------------------- querysets
\* get_queryset(): the viewset's base queryset over the table.
get_queryset(s) == {r \in s : r.origin = QuerysetOrigin}

\* The filter{fur} values a request can carry ("" is no filter).
Filters == {"", "x"}

\* filter_queryset(queryset): the request's filter applied by the backends.
filter_queryset(qs, filter) ==
    IF filter = "" THEN qs ELSE {r \in qs : r.fur_color = filter}

\* An exception that the framework renders as a client error.
ClientError(code, exc, detail) == [status |-> code, exc |-> exc, detail |-> detail]

\* ----------------------------------------------------------- destroy-many
\* Mutant: the identifiers are looked up in the whole table.
DestroyInstancesAllRows(s, data) ==
    OrderById({r \in s : r.id \in {data[i].id : i \in 1..Len(data)}})

\* _destroy_many, lines 719-721: the rows of the base queryset whose id is
\* listed in the payload, each once.
DestroyInstances(s, data) ==
    OrderById({r \in get_queryset(s) : r.id \in {data[i].id : i \in 1..Len(data)}})

\* The outcomes of the two per-instance calls are inputs of the request:
\* fail.kind = "denied": check_object_permissions raises for row fail.id;
\* fail.kind = "protected": perform_destroy raises for row fail.id.
DestroyFailures ==
    {[kind |-> "none", id |-> 0]} \cup [kind : {"denied", "protected"}, id : Ids]

\* _destroy_many, lines 722-724: the loop over instances[i..].
RECURSIVE DestroyLoop(_, _, _, _)
DestroyLoop(instances, i, fail, acc) ==
    IF i > Len(instances) THEN acc
    ELSE LET instance == instances[i] IN
         IF fail.kind = "denied" /\ fail.id = instance.id
         THEN [acc EXCEPT !.raised = "PermissionDenied"]
         ELSE IF fail.kind = "protected" /\ fail.id = instance.id
         THEN [acc EXCEPT !.raised = "ProtectedError"]
         ELSE DestroyLoop(instances, i + 1, fail,
                          [acc EXCEPT !.store = @ \ {instance}])

\* _destroy_many(data)
_destroy_many(s, data, fail) ==
    LET acc == DestroyLoop(DestroyInstances(s, data), 1, fail,
                           [store |-> s, raised |-> ""])
    IN [store |-> acc.store,
        response |-> IF acc.raised = "PermissionDenied"
                     THEN ClientError(403, acc.raised, "")
                     ELSE IF acc.raised # "" THEN ServerError(acc.raised)
                     ELSE [status |-> 204]]

\* DELETE with a list payload.
destroy(data, fail) ==
    /\ Idle
    /\ LET out == _destroy_many(store, data, fail) IN
        /\ store' = out.store
        /\ response' = out.response
    /\ pre' = store
    /\ request' = [op |-> "destroy", data |-> data, fail |-> fail]

\* ------------------------------------------------------------ update-many
\* An update item carries the identifier and the new fur ("" is blank).
UpdateItems == [id : Ids, fur : {"y"}] \cup {[id |-> 1, fur |-> ""]}

\* is_valid() of one update item: fur may not be blank.
item_is_valid(item) == item.fur # ""

\* serializer.is_valid() with many=True: the batch is valid when every item
\* is.
batch_is_valid(data) == \A i \in 1..Len(data) : item_is_valid(data[i])

\* perform_update with many=True over data[i..]: each item is written to the
\* row of the filtered queryset that has its identifier.
RECURSIVE perform_update(_, _, _, _)
perform_update(s, qs, data, i) ==
    IF i > Len(data) THEN s
    ELSE LET hit == {r \in s : r.id = data[i].id /\ r.id \in {q.id : q \in qs}}
         IN perform_update((s \ hit) \cup {[r EXCEPT !.fur_color = data[i].fur] : r \in hit},
                           qs, data, i + 1)

\* Mutant: the rows are written before the batch is validated.
_bulk_update_write_first(s, data, filter) ==
    LET qs == filter_queryset(get_queryset(s), filter)
        new == perform_update(s, qs, data, 1)
    IN IF ~batch_is_valid(data)
       THEN [store |-> new,
             response |-> ClientError(400, "ValidationError", "This field may not be blank.")]
       ELSE [store |-> new,
             response |-> [status |-> 200,
                           body |-> SideloadingProcessor(
                               [i \in 1..Len(OrderById({r \in new : r.id \in {q.id : q \in qs}}))
                                   |-> to_representation(
                                         OrderById({r \in new : r.id \in {q.id : q \in qs}})[i])])]]

\* _bulk_update(data): validate the batch against the filtered queryset,
\* then write.
_bulk_update(s, data, filter) ==
    LET qs == filter_queryset(get_queryset(s), filter)
        new == perform_update(s, qs, data, 1)
    IN IF ~batch_is_valid(data)
       THEN [store |-> s,
             response |-> ClientError(400, "ValidationError", "This field may not be blank.")]
       ELSE [store |-> new,
             response |-> [status |-> 200,
                           body |-> SideloadingProcessor(
                               [i \in 1..Len(OrderById({r \in new : r.id \in {q.id : q \in qs}}))
                                   |-> to_representation(
                                         OrderById({r \in new : r.id \in {q.id : q \in qs}})[i])])]]

\* PATCH with a list payload and no patch-all parameter.
update_many(data, filter) ==
    /\ Idle
    /\ LET out == _bulk_update(store, data, filter) IN
        /\ store' = out.store
        /\ response' = out.response
    /\ pre' = store
    /\ request' = [op |-> "update_many", data |-> data, filter |-> filter]

\* -------------------------------------------------------------- patch-all
\* serializer.get_all_fields(): the serializer's declared fields.  source ""
\* is an unset source; "*" is the whole-object source.
DeclaredFields ==
    [id     |-> [source |-> "",          read_only |-> TRUE,  immutable |-> FALSE],
     name   |-> [source |-> "",          read_only |-> FALSE, immutable |-> FALSE],
     fur    |-> [source |-> "fur_color", read_only |-> FALSE, immutable |-> FALSE],
     origin |-> [source |-> "",          read_only |-> FALSE, immutable |-> TRUE],
     is_red |-> [source |-> "*",         read_only |-> FALSE, immutable |-> FALSE]]

\* In a write request an immutable field is read-only.
get_all_fields ==
    [n \in DOMAIN DeclaredFields |->
        [source |-> DeclaredFields[n].source,
         read_only |-> DeclaredFields[n].read_only \/ DeclaredFields[n].immutable]]

\* The key/value pairs a patch-all payload is made of.
PatchPairs ==
    {[name |-> "name", value |-> "a"], [name |-> "fur", value |-> "y"],
     [name |-> "origin", value |-> "v"], [name |-> "is_red", value |-> "v"],
     [name |-> "fury", value |-> "v"]}

\* The payloads in object form: pairs with distinct keys, in key order.
PatchPayloads ==
    {d \in SeqsUpTo(PatchPairs, MaxPatch) :
        \A i, j \in 1..Len(d) : d[i].name = d[j].name => i = j}

\* validated[source] = value on a dict kept as a sequence of pairs.
DictPut(d, k, v) ==
    IF \E i \in 1..Len(d) : d[i].source = k
    THEN [i \in 1..Len(d) |-> IF d[i].source = k THEN [source |-> k, value |-> v] ELSE d[i]]
    ELSE Append(d, [source |-> k, value |-> v])

\* Mutant: a name that resolves to no field is skipped.
RECURSIVE ValidateLoopSkipUnknown(_, _, _)
ValidateLoopSkipUnknown(data, i, validated) ==
    IF i > Len(data) THEN [ok |-> TRUE, validated |-> validated]
    ELSE LET name == data[i].name IN
         IF name \notin DOMAIN get_all_fields
         THEN ValidateLoopSkipUnknown(data, i + 1, validated)
         ELSE LET field == get_all_fields[name]
                  source == IF field.source # "" THEN field.source ELSE name
              IN IF source = "*" \/ field.read_only
                 THEN [ok |-> FALSE, msg |-> "Cannot update field", field |-> name]
                 ELSE ValidateLoopSkipUnknown(data, i + 1, DictPut(validated, source, data[i].value))

\* _validate_patch_all, lines 503-511: the loop over data.items() from the
\* i-th pair on.
RECURSIVE ValidateLoop(_, _, _)
ValidateLoop(data, i, validated) ==
    IF i > Len(data) THEN [ok |-> TRUE, validated |-> validated]
    ELSE LET name == data[i].name IN
         IF name \notin DOMAIN get_all_fields
         THEN [ok |-> FALSE, msg |-> "Unknown field", field |-> name]
         ELSE LET field == get_all_fields[name]
                  source == IF field.source # "" THEN field.source ELSE name
              IN IF source = "*" \/ field.read_only
                 THEN [ok |-> FALSE, msg |-> "Cannot update field", field |-> name]
                 ELSE ValidateLoop(data, i + 1, DictPut(validated, source, data[i].value))

\* _validate_patch_all(data); form is the JSON form of the payload.
_validate_patch_all(form, data) ==
    IF form # "object"
    THEN [ok |-> FALSE, msg |-> "Patch-all data must be in object form", field |-> ""]
    ELSE ValidateLoop(data, 1, <<>>)

\* setattr(record, k, v) for every pair of data.
RECURSIVE SetAttrs(_, _, _)
SetAttrs(record, data, i) ==
    IF i > Len(data) THEN record
    ELSE SetAttrs([record EXCEPT ![data[i].source] = data[i].value], data, i + 1)

\* The message of the store's IntegrityError.
UniqueViolation == "UNIQUE constraint failed: name"

\* queryset.update(**data): one UPDATE statement over the rows of qs; it
\* fails as a whole when the result breaks the unique constraint.
queryset_update(s, qs, data) ==
    LET new == (s \ qs) \cup {SetAttrs(r, data, 1) : r \in qs}
    IN IF Consistent(new)
       THEN [ok |-> TRUE, store |-> new, rows |-> Cardinality(qs)]
       ELSE [ok |-> FALSE, store |-> s, rows |-> 0]

\* record.save(): UPDATE of the row with the record's primary key; the store
\* raises IntegrityError when another row has the record's name.
save(s, record) ==
    IF \E r \in s : r.id # record.id /\ r.name = record.name
    THEN [ok |-> FALSE, store |-> s]
    ELSE [ok |-> TRUE, store |-> {r \in s : r.id # record.id} \cup {record}]

\* Mutant: the UPDATE statement runs over the whole table and not over the
\* filtered queryset.
_patch_all_query_all_rows(s, qs, data) ==
    LET u == queryset_update(s, s, data)
    IN IF u.ok
       THEN [ok |-> TRUE, store |-> u.store, updated |-> u.rows]
       ELSE [ok |-> FALSE, store |-> s,
             error |-> [msg |-> "Failed to bulk-update records",
                        cause |-> UniqueViolation, data |-> data]]

\* _patch_all_query(queryset, data)
_patch_all_query(s, qs, data) ==
    LET u == queryset_update(s, qs, data)
    IN IF u.ok
       THEN [ok |-> TRUE, store |-> u.store, updated |-> u.rows]
       ELSE [ok |-> FALSE, store |-> s,
             error |-> [msg |-> "Failed to bulk-update records",
                        cause |-> UniqueViolation, data |-> data]]

\* _patch_all_loop, lines 529-533: the loop over the records from the i-th
\* on, inside the transaction.
RECURSIVE PatchLoop(_, _, _, _)
PatchLoop(records, i, data, acc) ==
    IF i > Len(records) THEN acc
    ELSE LET sv == save(acc.store, SetAttrs(records[i], data, 1)) IN
         IF sv.ok
         THEN PatchLoop(records, i + 1, data,
                        [acc EXCEPT !.store = sv.store, !.updated = @ + 1])
         ELSE [acc EXCEPT !.raised = "IntegrityError"]

\* Mutant: a failed save leaves the loop without rolling back.
_patch_all_loop_no_transaction(s, qs, data) ==
    LET acc == PatchLoop(OrderById(qs), 1, data,
                         [store |-> s, updated |-> 0, raised |-> ""])
    IN IF acc.raised = ""
       THEN [ok |-> TRUE, store |-> acc.store, updated |-> acc.updated]
       ELSE [ok |-> FALSE, store |-> acc.store,
             error |-> [msg |-> "Failed to update records",
                        cause |-> UniqueViolation, data |-> data]]

\* Mutant: the counter is incremented before the save as well as after it.
_patch_all_loop_double_count(s, qs, data) ==
    LET acc == PatchLoop(OrderById(qs), 1, data,
                         [store |-> s, updated |-> 0, raised |-> ""])
    IN IF acc.raised = ""
       THEN [ok |-> TRUE, store |-> acc.store, updated |-> 2 * acc.updated]
       ELSE [ok |-> FALSE, store |-> s,
             error |-> [msg |-> "Failed to update records",
                        cause |-> UniqueViolation, data |-> data]]

\* _patch_all_loop(queryset, data): transaction.atomic() restores the store
\* when the block is left by an exception.
_patch_all_loop(s, qs, data) ==
    LET acc == PatchLoop(OrderById(qs), 1, data,
                         [store |-> s, updated |-> 0, raised |-> ""])
    IN IF acc.raised = ""
       THEN [ok |-> TRUE, store |-> acc.store, updated |-> acc.updated]
       ELSE [ok |-> FALSE, store |-> s,
             error |-> [msg |-> "Failed to update records",
                        cause |-> UniqueViolation, data |-> data]]

\* _patch_all(data, query)
_patch_all(s, form, data, filter, query) ==
    LET queryset == filter_queryset(get_queryset(s), filter)
        v == _validate_patch_all(form, data)
    IN IF ~v.ok
       THEN [store |-> s,
             response |-> ClientError(400, "ValidationError",
                                      [msg |-> v.msg, field |-> v.field])]
       ELSE LET u == IF query THEN _patch_all_query(s, queryset, v.validated)
                     ELSE _patch_all_loop(s, queryset, v.validated)
            IN IF u.ok
               THEN [store |-> u.store,
                     response |-> [status |-> 200,
                                   body |-> [meta |-> [updated |-> u.updated]]]]
               ELSE [store |-> u.store,
                     response |-> ClientError(400, "ValidationError", u.error)]

\* PATCH with the patch-all parameter: "true" (loop) or "query".
patch_all(form, data, filter, query) ==
    /\ Idle
    /\ LET out == _patch_all(store, form, data, filter, query) IN
        /\ store' = out.store
        /\ response' = out.response
    /\ pre' = store
    /\ request' = [op |-> "patch_all", form |-> form, data |-> data,
                   filter |-> filter, query |-> query]

\* ----------------------------------------------------------- specification
Init ==
    /\ store \in Stores
    /\ pre = store
    /\ request = NoRequest
    /\ response = NoResponse

\* The response is sent and the request-scoped state is discarded.
finish ==
    /\ ~Idle
    /\ pre' = store
    /\ request' = NoRequest
    /\ response' = NoResponse
    /\ UNCHANGED store

Next ==
    \/ \E data \in SeqsUpTo(CreateEntries, MaxCreate), partial \in BOOLEAN :
            create(data, partial)
    \/ \E data \in SeqsUpTo([id : Ids], MaxDestroy), fail \in DestroyFailures :
            destroy(data, fail)
    \/ \E data \in SeqsUpTo(UpdateItems, MaxUpdate), filter \in Filters :
            update_many(data, filter)
    \/ \E data \in PatchPayloads, filter \in Filters, query \in BOOLEAN :
            patch_all("object", data, filter, query)
    \/ \E filter \in Filters, query \in BOOLEAN :
            patch_all("list", <<>>, filter, query)
    \/ finish

Spec == Init /\ [][Next]_vars

TypeOK ==
    /\ store \subseteq Rows
    /\ Consistent(store)

\* ------------------------------------------------------------------ claims
IsCreate == request.op = "create"
Partial == request.ENABLE_BULK_PARTIAL_CREATION
Returned == response.status \in {200, 201, 204, 400}
HasInvalid(data) == \E i \in 1..Len(data) : ~is_valid(data[i])
\* The sub-sequence of the invalid entries of data, in payload order.
InvalidEntries(data) == SelectSeq(data, LAMBDA e : ~is_valid(e))
ValidEntries(data) == SelectSeq(data, LAMBDA e : is_valid(e))
BodyErrors == IF "errors" \in DOMAIN response.body THEN response.body["errors"] ELSE <<>>
BodyItems == response.body[PluralName]

\* C1: create-many without partial creation persists nothing when at least
\* one payload item fails validation, wherever the invalid item stands.
C1_NoWriteOnInvalid ==
    (IsCreate /\ ~Partial /\ HasInvalid(request.data))
        => store = pre

\* C1 witness: an invalid item that follows a valid one, nothing persisted.
C1_Witness ==
    /\ IsCreate /\ ~Partial
    /\ Len(request.data) = 2
    /\ is_valid(request.data[1]) /\ ~is_valid(request.data[2])
    /\ \A r \in pre : r.name # request.data[1].name
    /\ response.status = 400

\* C2: create-many without partial creation is not half-applied: when a
\* persistence call fails after earlier items of the batch were persisted,
\* none of the batch's items remains persisted.
C2_NotHalfApplied ==
    (IsCreate /\ ~Partial /\ response.status = 500)
        => store = pre

\* C5: create-many with partial creation keeps what was persisted before the
\* request and every item it created, whatever happens to later items; and
\* when it returns, every valid item is a created entry backed by a new row,
\* every invalid item is exactly one error entry holding the input and the
\* detail, so created entries + error entries = payload items.
C5_PartialAccounting ==
    (IsCreate /\ Partial) =>
        /\ pre \subseteq store
        /\ Returned =>
            /\ Len(BodyItems) + Len(BodyErrors) = Len(request.data)
            /\ BodyErrors = [i \in 1..Len(InvalidEntries(request.data)) |->
                    [detail |-> ErrorDetail(InvalidEntries(request.data)[i]),
                     source |-> InvalidEntries(request.data)[i]]]
            /\ Len(BodyItems) = Len(ValidEntries(request.data))
            /\ \A i \in 1..Len(BodyItems) :
                /\ BodyItems[i].name = ValidEntries(request.data)[i].name
                /\ \E r \in store \ pre : to_representation(r) = BodyItems[i]
            /\ Cardinality(store \ pre) = Len(BodyItems)

\* C5 witness: a valid item followed by an invalid one; the first stays.
C5_Witness ==
    /\ IsCreate /\ Partial /\ Returned
    /\ Len(request.data) = 2
    /\ is_valid(request.data[1]) /\ ~is_valid(request.data[2])
    /\ Len(BodyItems) = 1 /\ Len(BodyErrors) = 1
    /\ store # pre

\* C6: a create-many response is 201 exactly when no item produced an error
\* and 400 otherwise, also when partial creation persisted some items.
C6_CreateStatus ==
    (IsCreate /\ Returned) =>
        /\ response.status = 201 <=> ~HasInvalid(request.data)
        /\ response.status = 400 <=> HasInvalid(request.data)
        /\ HasInvalid(request.data) <=> BodyErrors # <<>>

\* C6 witness: partial creation persisted an item and the status is 400.
C6_Witness ==
    /\ IsCreate /\ Partial
    /\ response.status = 400
    /\ store # pre

IsDestroy == request.op = "destroy"
IsUpdate == request.op = "update_many"
IsPatch == request.op = "patch_all"
ListedIds == {request.data[i].id : i \in 1..Len(request.data)}
\* The filtered queryset as the request found it.
Target == filter_queryset(get_queryset(pre), request.filter)
\* The source/value pairs of a patch-all payload that passed validation.
Validated == _validate_patch_all(request.form, request.data).validated
Patched(T) == (pre \ T) \cup {SetAttrs(r, Validated, 1) : r \in T}

\* C3: destroy-many is all-or-nothing: when a deletion fails or a permission
\* check is denied part-way, none of the instances of the batch is deleted.
C3_DestroyAllOrNothing ==
    (IsDestroy /\ response.status \in {403, 500}) => store = pre

\* C4: patch-all in loop mode is atomic: when no save violates the unique
\* constraint every record of the filtered queryset is saved with the new
\* values; when a save does, no record keeps its new values and the request
\* fails with a validation error carrying the store's message and the data.
C4_LoopAtomic ==
    (IsPatch /\ ~request.query
        /\ _validate_patch_all(request.form, request.data).ok) =>
        LET named == {i \in 1..Len(Validated) : Validated[i].source = "name"}
            violation ==
                /\ named # {}
                /\ Target # {}
                /\ \/ Cardinality(Target) >= 2
                   \/ \E r \in pre \ Target, i \in named : r.name = Validated[i].value
        IN /\ violation =>
                /\ store = pre
                /\ response.status = 400
                /\ response.exc = "ValidationError"
                /\ response.detail.cause = UniqueViolation
                /\ response.detail.data = Validated
           /\ ~violation =>
                /\ response.status = 200
                /\ store = Patched(Target)

\* C4 witness: the first record was saved, a later save failed, and the
\* store is as the request found it.
C4_Witness ==
    /\ IsPatch /\ ~request.query
    /\ request.data = <<[name |-> "fur", value |-> "y"], [name |-> "name", value |-> "a"]>>
    /\ Cardinality(Target) >= 2
    /\ \E r \in Target :
            /\ r.name = "a" /\ r.fur_color = "x"
            /\ \A q \in Target : r.id <= q.id
    /\ response.status = 400
    /\ store = pre

\* A payload key that patch-all must reject.
Rejected(name) ==
    \/ name \notin DOMAIN DeclaredFields
    \/ DeclaredFields[name].immutable
    \/ DeclaredFields[name].read_only
    \/ DeclaredFields[name].source = "*"

C8_DestroyFrame ==
    IsDestroy =>
        /\ store \subseteq pre
        /\ \A r \in pre \ store : r \in get_queryset(pre) /\ r.id \in ListedIds
        /\ response.status = 204 =>
                store = {r \in pre : ~(r \in get_queryset(pre) /\ r.id \in ListedIds)}

\* C8 witness: the payload lists a row of the queryset, which is deleted,
\* and a row outside the queryset, which stays.
C8_Witness ==
    /\ IsDestroy /\ response.status = 204
    /\ \E r \in pre \ get_queryset(pre) : r.id \in ListedIds /\ r \in store
    /\ \E r \in get_queryset(pre) : r.id \in ListedIds /\ r \notin store

\* C9: update-many validates the whole batch before any write: when any
\* item fails validation the request fails and no row is updated.
C9_ValidateBeforeWrite ==
    (IsUpdate /\ \E i \in 1..Len(request.data) : ~item_is_valid(request.data[i])) =>
        /\ store = pre
        /\ response.status = 400
        /\ response.exc = "ValidationError"

\* C9 witness: a valid item that would change a row of the filtered
\* queryset, followed by an invalid item; nothing was written.
C9_Witness ==
    /\ IsUpdate /\ Len(request.data) = 2
    /\ item_is_valid(request.data[1]) /\ ~item_is_valid(request.data[2])
    /\ \E r \in Target : r.id = request.data[1].id /\ r.fur_color # request.data[1].fur
    /\ response.status = 400
    /\ store = pre

\* C10: a successful patch-all response holds no records, only
\* meta.updated, and the count is the number of rows of the filtered
\* queryset, all of which were updated.
C10_PatchCount ==
    (IsPatch /\ response.status = 200) =>
        /\ DOMAIN response.body = {"meta"}
        /\ DOMAIN response.body.meta = {"updated"}
        /\ response.body.meta.updated = Cardinality(Target)
        /\ store = Patched(Target)

\* C10 witness: query mode, payload {"fur": "y"}, several matching rows.
C10_Witness ==
    /\ IsPatch /\ request.query
    /\ request.data = <<[name |-> "fur", value |-> "y"]>>
    /\ Cardinality(Target) >= 2
    /\ \E r \in Target : r.fur_color = "x"
    /\ response.status = 200
    /\ response.body.meta.updated = Cardinality(Target)

\* -------------------------------------------------------------------- C25
\* What _patch_all gives for the request in loop mode (query = FALSE) or in
\* query mode (query = TRUE), from the store as the request found it.
InMode(query) ==
    _patch_all(pre, request.form, request.data, request.filter, query)

\* The payload passes validation and no save of the loop fails.
NoSaveFails ==
    /\ _validate_patch_all(request.form, request.data).ok
    /\ _patch_all_loop(pre, Target, Validated).ok

UpperCase == <<"A", "B", "C", "D", "E", "F", "G", "H", "I", "J", "K", "L", "M",
               "N", "O", "P", "Q", "R", "S", "T", "U", "V", "W", "X", "Y", "Z">>
LowerCase == <<"a", "b", "c", "d", "e", "f", "g", "h", "i", "j", "k", "l", "m",
               "n", "o", "p", "q", "r", "s", "t", "u", "v", "w", "x", "y", "z">>

\* str.lower()
lower(s) ==
    [i \in 1..Len(s) |->
        IF \E k \in 1..Len(UpperCase) : UpperCase[k] = s[i]
        THEN LowerCase[CHOOSE k \in 1..Len(UpperCase) : UpperCase[k] = s[i]]
        ELSE s[i]]

\* str.startswith(p) and str.endswith(p)
startswith(s, p) == Len(s) >= Len(p) /\ SubSeq(s, 1, Len(p)) = p
endswith(s, p) == Len(s) >= Len(p) /\ SubSeq(s, Len(s) - Len(p) + 1, Len(s)) = p

\* str.split(sep) for a one-character separator: the pieces between the
\* separators, empty pieces included.
RECURSIVE split(_, _)
split(s, sep) ==
    IF \A i \in 1..Len(s) : s[i] # sep THEN <<s>>
    ELSE LET k == CHOOSE i \in 1..Len(s) :
                      s[i] = sep /\ \A j \in 1..(i - 1) : s[j] # sep
         IN <<SubSeq(s, 1, k - 1)>> \o split(SubSeq(s, k + 1, Len(s)), sep)

\* ------------------------------------------------------- request features
PATCH_ALL == "patch-all"
INCLUDE == "include[]"
EXCLUDE == "exclude[]"
FILTER == "filter{}"

\* WithDynamicViewSetMixin.features
features ==
    {"debug", INCLUDE, EXCLUDE, FILTER, "page", "per_page", "sort[]",
     "sideloading", PATCH_ALL}

\* A parameter that the query string does not carry (None).
Absent == [present |-> FALSE, value |-> <<>>]
Given(v) == [present |-> TRUE, value |-> v]

\* get_request_feature(name) for a plain feature: found is what
\* query_params.get(name) returns.
get_request_feature(name, found) == IF name \in features THEN found ELSE Absent

\* dynamic_rest.utils.is_truthy for a string.
FALSEY_STRINGS == {<<"0">>, <<"f", "a", "l", "s", "e">>, <<>>}
is_truthy(x) == lower(x) \notin FALSEY_STRINGS

\* Mutant: the value is compared with "query" as the client wrote it.
get_request_patch_all_case_sensitive(found) ==
    LET param == get_request_feature(PATCH_ALL, found) IN
    IF ~param.present \/ param.value = <<>>
    THEN [raised |-> "", value |-> "None"]
    ELSE IF param.value = <<"q", "u", "e", "r", "y">>
         THEN [raised |-> "", value |-> "query"]
         ELSE IF is_truthy(lower(param.value))
              THEN [raised |-> "", value |-> "True"]
              ELSE [raised |-> "ParseError", value |-> "None"]

\* get_request_patch_all(): None, True or "query", or a ParseError.
get_request_patch_all(found) ==
    LET param == get_request_feature(PATCH_ALL, found) IN
    IF ~param.present \/ param.value = <<>>
    THEN [raised |-> "", value |-> "None"]
    ELSE IF lower(param.value) = <<"q", "u", "e", "r", "y">>
         THEN [raised |-> "", value |-> "query"]
         ELSE IF is_truthy(lower(param.value))
              THEN [raised |-> "", value |-> "True"]
              ELSE [raised |-> "ParseError", value |-> "None"]

\* =============================================================== dispatch
\* The longest list of a dispatched payload.
MaxItems == 1

\* request.data is a JSON list (list = TRUE, its entries in items) or a JSON
\* object (list = FALSE): pairs are its key/value pairs, and items is the
\* value under the plural name when the object has that key.
ListPayload(items) == [list |-> TRUE, items |-> items, pairs |-> <<>>]
ObjectPayload(pairs, items) == [list |-> FALSE, items |-> items, pairs |-> pairs]
Keys(data) == {data.pairs[i].name : i \in 1..Len(data.pairs)}
PluralPair == [name |-> PluralName, value |-> "v"]

\* Lists of at most n entries, the empty list included.
ListsUpTo(S, n) == {<<>>} \cup SeqsUpTo(S, n)

\* The payloads of one handler: a list, an object with the plural name as
\* its only key, an object with the plural name and another key, and an
\* object without the plural name.
Payloads(Entries, Pairs) ==
    {ListPayload(items) : items \in ListsUpTo(Entries, MaxItems)}
    \cup {ObjectPayload(<<PluralPair>>, items) : items \in ListsUpTo(Entries, MaxItems)}
    \cup {ObjectPayload(<<PluralPair, p>>, <<e>>) : p \in Pairs, e \in Entries}
    \cup {ObjectPayload(<<p>>, <<>>) : p \in Pairs}
    \cup {ObjectPayload(<<>>, <<>>)}

\* None, the result of _get_bulk_payload for a payload that is not bulk.
None == [none |-> TRUE, value |-> <<>>]

\* _get_bulk_payload(request)
_get_bulk_payload(data) ==
    IF data.list THEN [none |-> FALSE, value |-> data.items]
    ELSE IF PluralName \in Keys(data) /\ Len(data.pairs) = 1
         THEN [none |-> FALSE, value |-> data.items]
         ELSE None

\* "if bulk_payload:", the truth value of a list or None.
Truthy(bulk_payload) == ~bulk_payload.none /\ bulk_payload.value # <<>>

\* The value an object payload gives for a key ("" when it has no such key).
ValueOf(data, key) ==
    IF key \in Keys(data)
    THEN data.pairs[CHOOSE i \in 1..Len(data.pairs) : data.pairs[i].name = key].value
    ELSE ""

\* The response of a handler with the path that produced it.
Routed(route, out) ==
    [store |-> out.store, response |-> ("route" :> route) @@ out.response]

\* get_object(): the row of the filtered queryset that the URL names.
get_object(s, pk, filter) ==
    {r \in filter_queryset(get_queryset(s), filter) : r.id = pk}

\* CreateModelMixin.create: one object, validated and then inserted.
super_create(s, data) ==
    LET entry == [name |-> ValueOf(data, "name")] IN
    IF data.list \/ ~is_valid(entry)
    THEN [store |-> s, response |-> ClientError(400, "ValidationError", "invalid")]
    ELSE LET c == perform_create(s, entry) IN
         IF c.ok
         THEN [store |-> c.store,
               response |-> [status |-> 201, body |-> to_representation(c.instance)]]
         ELSE [store |-> s, response |-> ServerError("IntegrityError")]

\* create(request), lines 712-715.
handle_create(s, data, partial) ==
    LET bulk_payload == _get_bulk_payload(data) IN
    IF Truthy(bulk_payload)
    THEN Routed("bulk", _create_many(s, bulk_payload.value, partial))
    ELSE Routed("single", super_create(s, data))

CreatePairs == {[name |-> "name", value |-> n] : n \in Names}

\* POST with any payload.
create_request(data, partial) ==
    /\ Idle
    /\ MaxOf({r.id : r \in store}) + MaxOf({1, Len(data.items)}) <= MaxId
    /\ LET out == handle_create(store, data, partial) IN
        /\ store' = out.store
        /\ response' = out.response
    /\ pre' = store
    /\ request' = [op |-> "create_request", data |-> data,
                   ENABLE_BULK_PARTIAL_CREATION |-> partial]

\* DestroyModelMixin.destroy: the object the URL names is deleted.
super_destroy(s, pk, fail) ==
    LET found == get_object(s, pk, "") IN
    IF found = {}
    THEN [store |-> s, response |-> ClientError(404, "Http404", "")]
    ELSE IF fail.kind = "denied" /\ fail.id = pk
    THEN [store |-> s, response |-> ClientError(403, "PermissionDenied", "")]
    ELSE IF fail.kind = "protected" /\ fail.id = pk
    THEN [store |-> s, response |-> ServerError("ProtectedError")]
    ELSE [store |-> s \ found, response |-> [status |-> 204]]

\* destroy(request), lines 745-751; pk = 0 is a URL without the lookup
\* keyword.
handle_destroy(s, data, pk, fail) ==
    LET bulk_payload == _get_bulk_payload(data) IN
    IF Truthy(bulk_payload)
    THEN Routed("bulk", _destroy_many(s, bulk_payload.value, fail))
    ELSE IF pk = 0
    THEN Routed("single", [store |-> s, response |-> [status |-> 405]])
    ELSE Routed("single", super_destroy(s, pk, fail))

\* DELETE with any payload.
destroy_request(data, pk, fail) ==
    /\ Idle
    /\ LET out == handle_destroy(store, data, pk, fail) IN
        /\ store' = out.store
        /\ response' = out.response
    /\ pre' = store
    /\ request' = [op |-> "destroy_request", data |-> data, pk |-> pk, fail |-> fail]

\* UpdateModelMixin.update: the object the URL names is validated and
\* saved.  Without the lookup keyword get_object fails its assertion, which
\* update() turns into a ValidationError.
super_update(s, data, pk, filter) ==
    LET found == get_object(s, pk, filter) IN
    IF pk = 0
    THEN [store |-> s, response |-> ClientError(400, "ValidationError", "Fix your URL conf")]
    ELSE IF found = {}
    THEN [store |-> s, response |-> ClientError(404, "Http404", "")]
    ELSE IF data.list \/ ("fur" \in Keys(data) /\ ValueOf(data, "fur") = "")
    THEN [store |-> s, response |-> ClientError(400, "ValidationError", "invalid")]
    ELSE LET new == IF "fur" \in Keys(data)
                    THEN (s \ found) \cup {[r EXCEPT !.fur_color = ValueOf(data, "fur")] : r \in found}
                    ELSE s
         IN [store |-> new,
             response |-> [status |-> 200,
                           body |-> {to_representation(r) : r \in {x \in new : x.id = pk}}]]

\* Mutant: the patch-all parameter is honoured whatever ENABLE_PATCH_ALL is.
handle_update_any_viewset(s, data, pk, filter, found, bulk, patch) ==
    IF bulk
    THEN LET param == get_request_patch_all(found) IN
         IF param.raised # ""
         THEN Routed("none", [store |-> s, response |-> ClientError(400, param.raised, "")])
         ELSE IF param.value # "None"
         THEN Routed("patch_all",
                     _patch_all(s, IF data.list THEN "list" ELSE "object",
                                data.pairs, filter, param.value = "query"))
         ELSE LET bulk_payload == _get_bulk_payload(data) IN
              IF Truthy(bulk_payload)
              THEN Routed("bulk", _bulk_update(s, bulk_payload.value, filter))
              ELSE Routed("single", super_update(s, data, pk, filter))
    ELSE Routed("single", super_update(s, data, pk, filter))

\* update(request), lines 611-637, in a viewset whose ENABLE_BULK_UPDATE is
\* bulk and whose ENABLE_PATCH_ALL is patch; found is the patch-all
\* parameter of the query string.
handle_update(s, data, pk, filter, found, bulk, patch) ==
    IF bulk
    THEN LET param == get_request_patch_all(found) IN
         IF param.raised # ""
         THEN Routed("none", [store |-> s, response |-> ClientError(400, param.raised, "")])
         ELSE IF patch /\ param.value # "None"
         THEN Routed("patch_all",
                     _patch_all(s, IF data.list THEN "list" ELSE "object",
                                data.pairs, filter, param.value = "query"))
         ELSE LET bulk_payload == _get_bulk_payload(data) IN
              IF Truthy(bulk_payload)
              THEN Routed("bulk", _bulk_update(s, bulk_payload.value, filter))
              ELSE Routed("single", super_update(s, data, pk, filter))
    ELSE Routed("single", super_update(s, data, pk, filter))

UpdatePairs == {[name |-> "fur", value |-> "y"]}

\* The patch-all parameters of the update requests.
PatchAllParams ==
    {Absent, Given(<<"t", "r", "u", "e">>), Given(<<"Q", "u", "e", "r", "y">>),
     Given(<<"f", "a", "l", "s", "e">>)}

\* PUT or PATCH with any payload.
update_request(data, pk, filter, found, bulk, patch) ==
    /\ Idle
    /\ LET out == handle_update(store, data, pk, filter, found, bulk, patch) IN
        /\ store' = out.store
        /\ response' = out.response
    /\ pre' = store
    /\ request' = [op |-> "update_request", data |-> data, pk |-> pk,
                   filter |-> filter, patch_all |-> found,
                   ENABLE_BULK_UPDATE |-> bulk, ENABLE_PATCH_ALL |-> patch]

\* The URL keyword of a request: a primary key, or 0 when the URL has none.
Lookups == {0, 1}

\* ---------------------------------------------------------------- C11, C12
IsDispatch == request.op \in {"create_request", "update_request", "destroy_request"}
\* The payload is a list, or an object whose only key is the plural name.
BulkShaped(data) == data.list \/ Keys(data) = {PluralName}

\* C11: a create, update or destroy request whose payload is a list, or a
\* dict whose only key is the plural name, is handled by the bulk path, and
\* every other payload by the single-object path (for update: in a viewset
\* with bulk update enabled and a request that is not a patch-all).
C11_BulkDispatch ==
    (/\ IsDispatch
     /\ request.op = "update_request" =>
            request.ENABLE_BULK_UPDATE /\ ~request.patch_all.present)
    => (response.route = "bulk" <=> BulkShaped(request.data))

\* C12: an update request patches the whole filtered queryset only when
\* ENABLE_PATCH_ALL is set and the request carries the patch-all parameter;
\* in every other case the rows it changes are among those that the payload
\* or the URL names by primary key.
C12_PatchAllOnlyOnRequest ==
    request.op = "update_request" =>
        LET asked == request.ENABLE_PATCH_ALL /\ request.patch_all.present
            named == {request.data.items[i].id : i \in 1..Len(request.data.items)}
                     \cup {request.pk}
        IN /\ response.route = "patch_all" => asked
           /\ ~asked => \A r \in (pre \ store) \cup (store \ pre) : r.id \in named

\* A viewset without ENABLE_PATCH_ALL receives patch-all=true with an object
\* payload over a queryset that the patch would have changed.
C12_Witness ==
    /\ request.op = "update_request"
    /\ request.ENABLE_BULK_UPDATE /\ ~request.ENABLE_PATCH_ALL
    /\ request.patch_all = Given(<<"t", "r", "u", "e">>)
    /\ request.data = ObjectPayload(<<[name |-> "fur", value |-> "y"]>>, <<>>)
    /\ request.pk = 0
    /\ \E r \in filter_queryset(get_queryset(pre), request.filter) : r.fur_color # "y"
    /\ response.route = "single"
    /\ store = pre

\* ====================================================== request parameters
\* The values of the patch-all parameter that the parser is given.
PatchAllValues ==
    {<<>>, <<"q", "u", "e", "r", "y">>, <<"Q", "U", "E", "R", "Y">>,
     <<"Q", "u", "e", "r", "y">>, <<"q", "u", "e", "r", "y", "x">>,
     <<"t", "r", "u", "e">>, <<"T", "r", "u", "e">>, <<"1">>, <<"y", "e", "s">>,
     <<"0">>, <<"f", "a", "l", "s", "e">>, <<"F", "a", "l", "s", "e">>}

\* A request whose patch-all parameter is found is parsed.
parse_patch_all(found) ==
    /\ Idle
    /\ request' = [op |-> "get_request_patch_all", patch_all |-> found]
    /\ response' = get_request_patch_all(found)
    /\ UNCHANGED <<store, pre>>

\* The spellings of "query" among the values.
QuerySpellings ==
    {<<"q", "u", "e", "r", "y">>, <<"Q", "U", "E", "R", "Y">>, <<"Q", "u", "e", "r", "y">>}

\* C13: the patch-all value "query", in any case, selects query mode; any
\* other truthy value selects loop mode; an absent (or empty) value selects
\* no patch-all; every other value is a parse error.
C13_PatchAllParsing ==
    request.op = "get_request_patch_all" =>
        LET p == request.patch_all IN
        IF ~p.present \/ p.value = <<>>
        THEN response = [raised |-> "", value |-> "None"]
        ELSE IF p.value \in QuerySpellings
        THEN response = [raised |-> "", value |-> "query"]
        ELSE IF is_truthy(p.value)
        THEN response = [raised |-> "", value |-> "True"]
        ELSE response.raised = "ParseError"

\* patch-all=QUERY selects query mode.
C13_Witness ==
    /\ request.op = "get_request_patch_all"
    /\ request.patch_all = Given(<<"Q", "U", "E", "R", "Y">>)
    /\ response = [raised |-> "", value |-> "query"]

\* ---------------------------------------------------------- request fields
\* The characters of the include[] and exclude[] values of one request, each
\* value counted with one separator.
MaxQuery == 8

\* The characters of a field path: a letter of a field name, or the dot.
PathChars == {"a", "."}

\* The strings over PathChars of at most n characters.
PathsUpTo(n) == UNION {[1..k -> PathChars] : k \in 0..n}

\* The characters that a list of field paths takes.
RECURSIVE QueryLen(_)
QueryLen(fields) ==
    IF fields = <<>> THEN 0 ELSE Len(Head(fields)) + 1 + QueryLen(Tail(fields))

\* lists[n + 1] is the set of the lists of field paths that take at most n
\* characters, for n from 0 to MaxQuery; lists holds the sets below n.
RECURSIVE FieldLists(_, _)
FieldLists(lists, n) ==
    IF n > MaxQuery THEN lists
    ELSE FieldLists(
            Append(lists,
                   {<<>>} \cup UNION {{<<field>> \o rest : rest \in lists[n - Len(field)]} :
                                        field \in PathsUpTo(n - 1)}),
            n + 1)

\* AllFieldLists[n + 1] is the set of the lists of field paths that take at
\* most n characters.
AllFieldLists == FieldLists(<< {<<>>} >>, 1)

\* request_fields is a nested dict: here a function from the key paths of
\* the tree to "True", "False" or "{}" (a nested dict).
EmptyDict == <<>>

IsPrefix(p, q) == Len(p) <= Len(q) /\ SubSeq(q, 1, Len(p)) = p

\* current_fields[segment] = value, where node is the key path of segment:
\* the old value of the key, a nested dict included, is replaced.
SetItem(fields, node, value) ==
    LET kept == {k \in DOMAIN fields : ~IsPrefix(node, k)}
    IN (node :> value) @@ [k \in kept |-> fields[k]]

\* get_request_fields, lines 305-318: the loop over field_segments from the
\* i-th on.  cur is current_fields: the key path of a dict of the tree
\* (dict = TRUE), or a boolean that was found in the tree (dict = FALSE).
RECURSIVE SegmentLoop(_, _, _, _, _)
SegmentLoop(request_fields, field_segments, i, cur, include) ==
    IF i > Len(field_segments)
    THEN [raised |-> "", request_fields |-> request_fields]
    ELSE LET segment == field_segments[i]
             last == i = Len(field_segments)
             node == Append(cur.at, segment)
         IN IF segment # <<>>
            THEN IF ~cur.dict
                 THEN [raised |-> "TypeError", request_fields |-> EmptyDict]
                 ELSE IF last
                 THEN SegmentLoop(SetItem(request_fields, node, include),
                                  field_segments, i + 1, cur, include)
                 ELSE LET fields == IF node \notin DOMAIN request_fields
                                    THEN SetItem(request_fields, node, "{}")
                                    ELSE request_fields
                      IN SegmentLoop(fields, field_segments, i + 1,
                                     [dict |-> fields[node] = "{}", at |-> node],
                                     include)
            ELSE IF ~last
                 THEN [raised |-> "ParseError", request_fields |-> EmptyDict]
                 ELSE SegmentLoop(request_fields, field_segments, i + 1, cur, include)

\* get_request_fields, lines 302-318: the loop over fields from the k-th on.
RECURSIVE FieldLoop(_, _, _, _)
FieldLoop(request_fields, fields, k, include) ==
    IF k > Len(fields)
    THEN [raised |-> "", request_fields |-> request_fields]
    ELSE LET r == SegmentLoop(request_fields, split(fields[k], "."), 1,
                              [dict |-> TRUE, at |-> <<>>], include)
         IN IF r.raised # "" THEN r
            ELSE FieldLoop(r.request_fields, fields, k + 1, include)

\* get_request_feature(name) for an array feature: found is what
\* query_params.getlist(name) returns.  For a name that is not a feature
\* the result is None, which get_request_fields skips as it does an empty
\* list.
get_array_feature(name, found) == IF name \in features THEN found ELSE <<>>

\* Mutant: the exclude[] paths are entered with True as well.
get_request_fields_all_true(include, exclude) ==
    LET inc == FieldLoop(EmptyDict, get_array_feature(INCLUDE, include), 1, "True")
    IN IF inc.raised # "" THEN inc
       ELSE FieldLoop(inc.request_fields, get_array_feature(EXCLUDE, exclude), 1, "True")

\* get_request_fields(): the include[] paths are entered first, with True,
\* and then the exclude[] paths, with False.
get_request_fields(include, exclude) ==
    LET inc == FieldLoop(EmptyDict, get_array_feature(INCLUDE, include), 1, "True")
    IN IF inc.raised # "" THEN inc
       ELSE FieldLoop(inc.request_fields, get_array_feature(EXCLUDE, exclude), 1, "False")

\* A request with include[] and exclude[] values is parsed.
parse_request_fields(include_fields, exclude_fields) ==
    /\ Idle
    /\ request' = [op |-> "get_request_fields",
                   include |-> include_fields, exclude |-> exclude_fields]
    /\ response' = get_request_fields(include_fields, exclude_fields)
    /\ UNCHANGED <<store, pre>>

\* ---------------------------------------------------------------- C14, C15
IsFields == request.op = "get_request_fields"
\* The paths of the request with their flags, in the order they are entered.
Entries ==
    [k \in 1..Len(request.include) |-> [path |-> request.include[k], flag |-> "True"]]
    \o [k \in 1..Len(request.exclude) |-> [path |-> request.exclude[k], flag |-> "False"]]
\* The path has an empty segment that is not its final segment: it starts
\* with a dot or has two dots in a row.
Misplaced(path) ==
    \E i \in 1..Len(path) : path[i] = "." /\ (i = 1 \/ path[i - 1] = ".")
\* The path ends with a dot.
Trailing(path) == path # <<>> /\ path[Len(path)] = "."
\* The non-empty segments of a path.
Segments(path) == SelectSeq(split(path, "."), LAMBDA s : s # <<>>)

\* C14: an empty segment of an include[] or exclude[] path is accepted only
\* as the final segment: a request with a path that has an empty segment in
\* another position ends with a ParseError and without a field map, and a
\* request without such a path does not end with a ParseError.
C14_EmptySegment ==
    IsFields =>
        IF \E k \in 1..Len(Entries) : Misplaced(Entries[k].path)
        THEN response = [raised |-> "ParseError", request_fields |-> EmptyDict]
        ELSE response.raised # "ParseError"

\* What the field map holds for the path of one entry: a nested dict at
\* every proper prefix, and at the last non-empty segment the flag of the
\* entry, or an empty nested dict when the path ends with a dot.
HoldsFor(fields, entry) ==
    LET segs == Segments(entry.path) IN
    segs # <<>> =>
        /\ \A j \in 1..Len(segs) :
                /\ SubSeq(segs, 1, j) \in DOMAIN fields
                /\ j < Len(segs) => fields[SubSeq(segs, 1, j)] = "{}"
        /\ IF Trailing(entry.path)
           THEN /\ fields[segs] = "{}"
                /\ \A k \in DOMAIN fields : IsPrefix(segs, k) => k = segs
           ELSE fields[segs] = entry.flag

\* C15 as stated: in the field map of a request, the last non-empty segment
\* of every include path maps to True and of every exclude path to False,
\* every earlier segment maps to a nested map, and a path with a trailing
\* dot yields an empty nested map.
C15_FieldTree ==
    (IsFields /\ response.raised = "") =>
        \A k \in 1..Len(Entries) : HoldsFor(response.request_fields, Entries[k])

\* No path of the request is a prefix of, or equal to, another of its paths.
Disjoint ==
    \A k, l \in 1..Len(Entries) :
        IsPrefix(Segments(Entries[k].path), Segments(Entries[l].path)) => k = l

\* C15 amended: the statement holds for the requests in which no path is a
\* prefix of or equal to another path.
C15_FieldTreeOfDisjointPaths ==
    (IsFields /\ Disjoint) =>
        /\ response.raised \in {"", "ParseError"}
        /\ response.raised = "" =>
                \A k \in 1..Len(Entries) : HoldsFor(response.request_fields, Entries[k])

\* include[]=a. and exclude[]=aa.a give {a: {}, aa: {a: False}}.
C15_Witness ==
    /\ IsFields
    /\ request.include = << <<"a", ".">> >>
    /\ request.exclude = << <<"a", "a", ".", "a">> >>
    /\ response.raised = ""
    /\ response.request_fields =
            (<< <<"a">> >> :> "{}") @@ (<< <<"a", "a">> >> :> "{}")
            @@ (<< <<"a", "a">>, <<"a">> >> :> "False")

\* -------------------------------------------------------------------- C23
\* C23: get_request_fields never fails with anything but a ParseError: for
\* every list of include and exclude paths without an interior empty
\* segment it returns a nested map, also when one path is a strict prefix
\* of another path of the request, in either order.
C23_OnlyParseError ==
    IsFields =>
        /\ response.raised \in {"", "ParseError"}
        /\ (\A k \in 1..Len(Entries) : ~Misplaced(Entries[k].path)) =>
                response.raised = ""

\* ------------------------------------------------ order of the parameters
\* The include[] and exclude[] parameters of one query string, in the order
\* in which the client wrote them: at most MaxQueryFields parameters.
MaxQueryFields == 3

\* The values of the parameters: the empty path, a, aa, a., a.a and .a
QueryPaths ==
    {<<>>, <<"a">>, <<"a", "a">>, <<"a", ".">>, <<"a", ".", "a">>, <<".", "a">>}

QueryFieldParams == [name : {INCLUDE, EXCLUDE}, value : QueryPaths]
Queries == SeqsUpTo(QueryFieldParams, MaxQueryFields)

\* request.query_params.getlist(name): the values of the parameters of that
\* name, in the order of the query string.
getlist(query, name) ==
    LET found == SelectSeq(query, LAMBDA param : param.name = name)
    IN [k \in 1..Len(found) |-> found[k].value]

\* Mutant: the exclude[] paths are entered before the include[] paths.
get_request_fields_of_excludes_first(query) ==
    LET exc == FieldLoop(EmptyDict, get_array_feature(EXCLUDE, getlist(query, EXCLUDE)),
                         1, "False")
    IN IF exc.raised # "" THEN exc
       ELSE FieldLoop(exc.request_fields,
                      get_array_feature(INCLUDE, getlist(query, INCLUDE)), 1, "True")

\* get_request_fields() for the query string of the request: the two
\* features are read with getlist.
get_request_fields_of(query) ==
    get_request_fields(getlist(query, INCLUDE), getlist(query, EXCLUDE))

\* A request with include[] and exclude[] parameters in some order is
\* parsed.
parse_query_fields(query) ==
    /\ Idle
    /\ request' = [op |-> "get_request_fields", query |-> query,
                   include |-> getlist(query, INCLUDE),
                   exclude |-> getlist(query, EXCLUDE)]
    /\ response' = get_request_fields_of(query)
    /\ UNCHANGED <<store, pre>>

\* -------------------------------------------------------------------- C24
IsQueryFields == IsFields /\ "query" \in DOMAIN request

\* The paths that the query string lists under include[] and under
\* exclude[].
ListedInBoth ==
    {path \in QueryPaths :
        /\ \E i \in 1..Len(request.query) :
                request.query[i] = [name |-> INCLUDE, value |-> path]
        /\ \E j \in 1..Len(request.query) :
                request.query[j] = [name |-> EXCLUDE, value |-> path]}

MaxParams == 2

\* The keys of the query strings: the feature name itself, well-formed and
\* malformed keys of the feature, and a key of another feature.
ParamNames ==
    {<<"f", "i", "l", "t", "e", "r", "{", "}">>, <<"f", "i", "l", "t", "e", "r", "{", "a", "}">>,
     <<"f", "i", "l", "t", "e", "r", "{", "a", "}", "[", "]">>, <<"f", "i", "l", "t", "e", "r", "{", "a">>,
     <<"f", "i", "l", "t", "e", "r", "{", "a", ".", "i", "n", "}">>, <<"f", "i", "l", "t", "e", "r", "{">>, <<"s", "o", "r", "t", "[", "]">>}

\* The value lists of a key.
ParamValues ==
    {<<<<"a">>>>, <<<<"[", "a", ",", "b", "]">>>>, <<<<"[", "a", ",", "b", "]">>, <<"c">>>>,
     <<<<"[", "a", "]">>>>, <<<<"{", "}">>>>}

\* request.query_params.lists(): the keys of the query string in the order
\* they were given, each with the list of its values.
QueryParams ==
    {q \in SeqsUpTo([name : ParamNames, value : ParamValues], MaxParams) :
        \A i, j \in 1..Len(q) : q[i].name = q[j].name => i = j}

\* Mutant: every value of a .in key is kept as it is.
ExpandUnsplit(value, i) == value

\* _extract_object_params, lines 77-85: the values of a key that ends in .in,
\* from the i-th on, with each bracketed comma-list replaced by its elements.
RECURSIVE Expand(_, _)
Expand(value, i) ==
    IF i > Len(value) THEN <<>>
    ELSE LET v == value[i] IN
         IF startswith(v, <<"[">>) /\ endswith(v, <<"]">>) /\ (\E k \in 1..Len(v) : v[k] = ",")
         THEN split(SubSeq(v, 2, Len(v) - 1), ",") \o Expand(value, i + 1)
         ELSE <<v>> \o Expand(value, i + 1)

\* The values that are JSON texts: json.loads raises ValueError for the
\* others.
JsonTexts == {<<"{", "}">>}

\* The results of _extract_object_params: None, the decoded filter{} object
\* (kept as its text), or the map from subkey to values.
ReturnNone == [raised |-> "", kind |-> "None", json |-> <<>>, params_map |-> <<>>]
ReturnJson(text) == [raised |-> "", kind |-> "json", json |-> text, params_map |-> <<>>]
ReturnMap(m) == [raised |-> "", kind |-> "dict", json |-> <<>>, params_map |-> m]
Raise(exc) == [raised |-> exc, kind |-> "None", json |-> <<>>, params_map |-> <<>>]

\* params_map[param_name] = value
MapPut(params_map, key, value) ==
    (key :> value) @@ [k \in DOMAIN params_map \ {key} |-> params_map[k]]

\* _extract_object_params, lines 54-87: the loop over params from the i-th
\* on.
RECURSIVE ParamLoop(_, _, _, _, _)
ParamLoop(params, i, name, raw, params_map) ==
    LET prefix == SubSeq(name, 1, Len(name) - 1)
        offset == Len(prefix)
    IN IF i > Len(params) THEN (IF raw THEN ReturnNone ELSE ReturnMap(params_map))
       ELSE LET param_name == params[i].name
                value == params[i].value
            IN IF param_name = name
               THEN IF raw /\ value # <<>>
                    THEN (IF value[1] \in JsonTexts THEN ReturnJson(value[1])
                          ELSE Raise("ValueError"))
                    ELSE ParamLoop(params, i + 1, name, raw, params_map)
               ELSE IF ~startswith(param_name, prefix)
               THEN ParamLoop(params, i + 1, name, raw, params_map)
               ELSE IF ~endswith(param_name, <<"}">>) /\ ~endswith(param_name, <<"}", "[", "]">>)
               THEN Raise("ParseError")
               ELSE LET subkey == IF endswith(param_name, <<"}">>)
                                  THEN SubSeq(param_name, offset + 1, Len(param_name) - 1)
                                  ELSE SubSeq(param_name, offset + 1, Len(param_name) - 3)
                        values == IF endswith(subkey, <<".", "i", "n">>) THEN Expand(value, 1) ELSE value
                    IN ParamLoop(params, i + 1, name, raw, MapPut(params_map, subkey, values))

\* _extract_object_params(request, name, raw)
_extract_object_params(params, name, raw) == ParamLoop(params, 1, name, raw, <<>>)

\* The name of the filter feature as a string of the request.
FilterName == <<"f", "i", "l", "t", "e", "r", "{", "}">>

\* get_request_feature(FILTER, raw) is called on a request.
parse_filters(params, raw) ==
    /\ Idle
    /\ request' = [op |-> "_extract_object_params", params |-> params, raw |-> raw]
    /\ response' = IF FILTER \in features
                   THEN _extract_object_params(params, FilterName, raw)
                   ELSE ReturnMap(<<>>)
    /\ UNCHANGED <<store, pre>>

\* ---------------------------------------------------------------- C16, C17
IsFilters == request.op = "_extract_object_params"
\* The key starts with the prefix of the feature and ends neither with }
\* nor with }[].
Malformed(key) ==
    /\ startswith(key, <<"f", "i", "l", "t", "e", "r", "{">>)
    /\ ~endswith(key, <<"}">>)
    /\ ~endswith(key, <<"}", "[", "]">>)

\* C16: when the filter{} feature is parsed, a request with a key that
\* starts with the prefix of the feature but ends neither with } nor with
\* }[] ends with a ParseError, whatever its other keys are.
C16_MalformedKey ==
    (IsFilters /\ \E i \in 1..Len(request.params) : Malformed(request.params[i].name))
        => response.raised = "ParseError"

\* The alternatives that the value lists stand for.
Alternatives(value) ==
    CASE value = <<<<"a">>>> -> <<<<"a">>>>
      [] value = <<<<"[", "a", ",", "b", "]">>>> -> <<<<"a">>, <<"b">>>>
      [] value = <<<<"[", "a", ",", "b", "]">>, <<"c">>>> -> <<<<"a">>, <<"b">>, <<"c">>>>
      [] value = <<<<"[", "a", "]">>>> -> <<<<"[", "a", "]">>>>
      [] value = <<<<"{", "}">>>> -> <<<<"{", "}">>>>

\* The last parameter of the request whose key gives the subkey.
LastFor(subkey) ==
    CHOOSE i \in 1..Len(request.params) :
        /\ request.params[i].name \in {<<"f", "i", "l", "t", "e", "r", "{">> \o subkey \o <<"}">>, <<"f", "i", "l", "t", "e", "r", "{">> \o subkey \o <<"}", "[", "]">>}
        /\ \A j \in (i + 1)..Len(request.params) :
                request.params[j].name \notin {<<"f", "i", "l", "t", "e", "r", "{">> \o subkey \o <<"}">>, <<"f", "i", "l", "t", "e", "r", "{">> \o subkey \o <<"}", "[", "]">>}

\* C17: in the map of a parsed filter{} feature, a subkey that ends in .in
\* maps to one flat list of alternatives, the elements of each bracketed
\* comma-list and the other values, in the order given; the values of every
\* other subkey are passed unchanged.
C17_InExpansion ==
    (IsFilters /\ response.kind = "dict") =>
        \A subkey \in DOMAIN response.params_map :
            LET given == request.params[LastFor(subkey)].value IN
            response.params_map[subkey] =
                IF endswith(subkey, <<".", "i", "n">>) THEN Alternatives(given) ELSE given

\* filter{a.in}=[a,b]&filter{a.in}=c gives a.in: a, b, c, and filter{a}=[a,b]
\* is passed as it is.
C17_Witness ==
    /\ IsFilters
    /\ request.params = << [name |-> <<"f", "i", "l", "t", "e", "r", "{", "a", ".", "i", "n", "}">>, value |-> <<<<"[", "a", ",", "b", "]">>, <<"c">>>>],
                           [name |-> <<"f", "i", "l", "t", "e", "r", "{", "a", "}">>, value |-> <<<<"[", "a", ",", "b", "]">>>>] >>
    /\ response.kind = "dict"
    /\ response.params_map[<<"a", ".", "i", "n">>] = <<<<"a">>, <<"b">>, <<"c">>>>
    /\ response.params_map[<<"a">>] = <<<<"[", "a", ",", "b", "]">>>>

\* ======================================================= field resolution
\* The most fields of a serializer.
MaxFields == 2

\* The names of the fields, as the segments of the request paths.
FieldCatalog == << <<"a">>, <<"a", "a">>, <<"a", "a", "a">> >>
FieldNames == {FieldCatalog[i] : i \in 1..MaxFields}

\* The field declarations of a serializer: each field is deferred or not,
\* and immutable or not.
Declarations == [FieldNames -> [deferred : BOOLEAN, immutable : BOOLEAN]]

\* The request field maps over the fields: a field is left out, or it is
\* marked True, False or with a nested map.
RequestFieldMaps ==
    UNION {[{<<n>> : n \in S} -> {"True", "False", "{}"}] : S \in SUBSET FieldNames}

UPDATE_REQUEST_METHODS == {"PUT", "PATCH", "POST"}
Methods == UPDATE_REQUEST_METHODS \cup {"GET", "DELETE"}

\* is_update()
is_update(method) == method \in UPDATE_REQUEST_METHODS

\* Mutant: every request asks the serializer for all its fields.
get_serializer_all_fields(method, request_fields) ==
    [request_fields |-> request_fields, envelope |-> TRUE, include_fields |-> "*"]

\* get_serializer(): the keyword arguments that the serializer is made with.
get_serializer(method, request_fields) ==
    [request_fields |-> request_fields, envelope |-> TRUE,
     include_fields |-> IF is_update(method) THEN "*" ELSE "None"]

\* What the request field map says of a field.
Marked(request_fields, name) ==
    IF <<name>> \in DOMAIN request_fields THEN request_fields[<<name>>] ELSE "absent"

\* The active field set of a serializer made with kwargs: a field that is
\* not deferred unless it is marked False, a deferred field when it is
\* marked True or with a nested map, and, when all fields are asked for,
\* every field that is not immutable and not marked False.
resolve(declared, kwargs) ==
    {name \in DOMAIN declared :
        LET mark == Marked(kwargs.request_fields, name) IN
        /\ mark # "False"
        /\ \/ ~declared[name].deferred
           \/ mark \in {"True", "{}"}
           \/ kwargs.include_fields = "*" /\ ~declared[name].immutable}

\* A serializer with the fields declared is made for a request.
make_serializer(declared, request_fields, method) ==
    /\ Idle
    /\ request' = [op |-> "get_serializer", declared |-> declared,
                   request_fields |-> request_fields, method |-> method]
    /\ response' = [kwargs |-> get_serializer(method, request_fields),
                    fields |-> resolve(declared, get_serializer(method, request_fields))]
    /\ UNCHANGED <<store, pre>>

\* -------------------------------------------------------------------- C20
IsSerializer == request.op = "get_serializer"
\* A deferred field is active only if the request marks it True or with a
\* nested map, and a field that the request marks False is not active.
DeferredAndExcluded ==
    \A name \in DOMAIN request.declared :
        LET mark == Marked(request.request_fields, name) IN
        /\ (request.declared[name].deferred /\ name \in response.fields)
                => mark \in {"True", "{}"}
        /\ mark = "False" => name \notin response.fields

RelationFields == {"location"}

\* The filter{} parameters of a relation request: none, or one filter.
RelatedFilters ==
    {<<>>, << [name |-> <<"f", "i", "l", "t", "e", "r", "{", "a", "}">>, value |-> << <<"a">> >>] >>}

\* Mutant: a relation without a target is answered like a missing parent.
list_related_target_not_found(s, pk, field_name, params, missing) ==
    LET filters == IF FILTER \in features
                   THEN _extract_object_params(params, FilterName, FALSE)
                   ELSE ReturnMap(<<>>)
        obj == get_object(s, pk, "")
    IN IF filters.raised # "" THEN ClientError(400, filters.raised, "")
       ELSE IF filters.params_map # <<>>
       THEN ClientError(400, "ValidationError", "Filtering is not enabled on relation endpoints.")
       ELSE IF field_name \notin RelationFields
       THEN ClientError(400, "ValidationError", "Unknown field")
       ELSE IF obj = {} THEN [status |-> 404, body |-> <<"Not found">>]
       ELSE IF pk \in missing THEN [status |-> 404, body |-> <<"Not found">>]
       ELSE [status |-> 200, body |-> <<field_name, pk>>]

\* list_related(request, pk, field_name): params are the filter{} keys of
\* the query string, and missing holds the primary keys of the rows whose
\* relation raises ObjectDoesNotExist.  The body of a found target is the
\* relation and its parent.
list_related(s, pk, field_name, params, missing) ==
    LET filters == IF FILTER \in features
                   THEN _extract_object_params(params, FilterName, FALSE)
                   ELSE ReturnMap(<<>>)
        obj == get_object(s, pk, "")
    IN IF filters.raised # "" THEN ClientError(400, filters.raised, "")
       ELSE IF filters.params_map # <<>>
       THEN ClientError(400, "ValidationError", "Filtering is not enabled on relation endpoints.")
       ELSE IF field_name \notin RelationFields
       THEN ClientError(400, "ValidationError", "Unknown field")
       ELSE IF obj = {} THEN [status |-> 404, body |-> <<"Not found">>]
       ELSE IF pk \in missing THEN [status |-> 200, body |-> <<>>]
       ELSE [status |-> 200, body |-> <<field_name, pk>>]

\* GET of a relation of the row pk.
related_request(pk, field_name, params, missing) ==
    /\ Idle
    /\ response' = list_related(store, pk, field_name, params, missing)
    /\ request' = [op |-> "list_related", pk |-> pk, field_name |-> field_name,
                   params |-> params, missing |-> missing]
    /\ pre' = store
    /\ UNCHANGED store

\* -------------------------------------------------------------------- C18
\* C18: on a relation request without filters and for a known relation, the
\* response is 404 exactly when the parent is not in the queryset, and it is
\* 200 with an empty body when the parent is there and the target of the
\* relation does not exist.
C18_TwoAbsences ==
    (/\ request.op = "list_related"
     /\ request.params = <<>>
     /\ request.field_name \in RelationFields)
    => LET parent == {r \in get_queryset(store) : r.id = request.pk} IN
       /\ parent = {} => response.status = 404
       /\ parent # {} => response.status = 200
       /\ (parent # {} /\ request.pk \in request.missing) => response.body = <<>>

\* The parent row is in the queryset and its relation has no target.
C18_Witness ==
    /\ request.op = "list_related"
    /\ request.params = <<>>
    /\ request.field_name \in RelationFields
    /\ \E r \in get_queryset(store) : r.id = request.pk
    /\ request.pk \in request.missing
    /\ response = [status |-> 200, body |-> <<>>]

\* ---------------------------------------- specification of the requests
NextDispatch ==
    \/ \E data \in Payloads(CreateEntries, CreatePairs), partial \in BOOLEAN :
            create_request(data, partial)
    \/ \E data \in Payloads([id : {1}], {[name |-> "id", value |-> "1"]}),
          pk \in Lookups, fail \in DestroyFailures :
            destroy_request(data, pk, fail)
    \/ \E data \in Payloads([id : {1}, fur : {"y"}], UpdatePairs), pk \in Lookups,
          filter \in Filters, found \in PatchAllParams,
          bulk \in BOOLEAN, patch \in BOOLEAN :
            update_request(data, pk, filter, found, bulk, patch)
    \/ \E pk \in Ids, field_name \in RelationFields \cup {"nope"},
          params \in RelatedFilters, missing \in SUBSET Ids :
            related_request(pk, field_name, params, missing)
    \/ finish

SpecDispatch == Init /\ [][NextDispatch]_vars

\* ============================================================= model meta
\* dynamic_rest/meta.py. A model has concrete fields (meta.get_field),
\* reverse relations (get_model_relationships) and, on the Django versions
\* that have them, virtual fields (meta.virtual_fields). At most
\* MaxModelFields field names are in play.
MaxModelFields == 2

ModelFieldCatalog == <<"name", "groups", "profile", "location">>
ModelFieldNames == {ModelFieldCatalog[i] : i \in 1..MaxModelFields}

\* The model argument: None, or a model class with its meta. A meta without
\* the attribute virtual_fields has has_virtual_fields = FALSE.
NoModel ==
    [none |-> TRUE, fields |-> {}, relationships |-> {},
     has_virtual_fields |-> FALSE, virtual_fields |-> {}]

Models ==
    {NoModel} \cup
    {[none |-> FALSE, fields |-> f, relationships |-> r,
      has_virtual_fields |-> FALSE, virtual_fields |-> {}] :
        f \in SUBSET ModelFieldNames, r \in SUBSET ModelFieldNames} \cup
    {[none |-> FALSE, fields |-> f, relationships |-> r,
      has_virtual_fields |-> TRUE, virtual_fields |-> v] :
        f \in SUBSET ModelFieldNames, r \in SUBSET ModelFieldNames,
        v \in SUBSET ModelFieldNames}

\* What get_model_field ends with: a field, None, or an exception.
NoField == [none |-> TRUE, kind |-> "", name |-> ""]
Field(kind, field_name) == [none |-> FALSE, kind |-> kind, name |-> field_name]
ReturnField(field) == [raised |-> "", field |-> field]
RaiseField(exc) == [raised |-> exc, field |-> NoField]

\* get_virtual_fields(meta): a dict of the virtual fields, or None.
get_virtual_fields(model) ==
    IF model.has_virtual_fields THEN model.virtual_fields ELSE {}

\* get_model_field(model, field_name)
get_model_field(model, field_name) ==
    IF model.none
    THEN ReturnField(NoField)
    ELSE IF field_name \in model.fields
         THEN ReturnField(Field("field", field_name))
         ELSE IF field_name \in model.relationships
              THEN ReturnField(Field("relationship", field_name))
              ELSE IF /\ get_virtual_fields(model) # {}
                      /\ field_name \in get_virtual_fields(model)
                   THEN ReturnField(Field("virtual", field_name))
                   ELSE RaiseField("AttributeError")

\* is_model_field(model, field_name): True unless get_model_field raised an
\* AttributeError; any other exception goes through.
is_model_field(model, field_name) ==
    LET got == get_model_field(model, field_name) IN
    IF got.raised = "" THEN [raised |-> "", value |-> TRUE]
    ELSE IF got.raised = "AttributeError" THEN [raised |-> "", value |-> FALSE]
         ELSE [raised |-> got.raised, value |-> FALSE]

\* A call of get_model_field.
lookup_model_field(model, field_name) ==
    /\ Idle
    /\ request' = [op |-> "get_model_field", model |-> model,
                   field_name |-> field_name]
    /\ response' = get_model_field(model, field_name)
    /\ UNCHANGED <<store, pre>>

\* A call of is_model_field.
check_model_field(model, field_name) ==
    /\ Idle
    /\ request' = [op |-> "is_model_field", model |-> model,
                   field_name |-> field_name]
    /\ response' = is_model_field(model, field_name)
    /\ UNCHANGED <<store, pre>>

\* -------------------------------------------------------------- C21, C22
IsModelField == request.op = "is_model_field"
IsGetModelField == request.op = "get_model_field"

\* field_name is the name of a concrete field, of a reverse relation or of
\* a virtual field of the model.
Exists(model, field_name) ==
    /\ ~model.none
    /\ field_name \in model.fields \cup model.relationships \cup get_virtual_fields(model)

\* C21: is_model_field(model, field_name) returns True if field_name exists
\* on model and False otherwise, for every model argument, None included.
C21_IsModelField ==
    IsModelField =>
        /\ response.raised = ""
        /\ response.value = Exists(request.model, request.field_name)

\* C22: get_model_field(model, field_name) returns the field when
\* field_name is a concrete field, a reverse relation or a virtual field of
\* model, and returns None otherwise; it raises for no field name.
C22_GetModelField ==
    IsGetModelField =>
        /\ response.raised = ""
        /\ response.field.none = ~Exists(request.model, request.field_name)
        /\ ~response.field.none => response.field.name = request.field_name

\* ------------------------------------- specification of the pure functions
InitParse ==
    /\ store = {}
    /\ pre = {}
    /\ request = NoRequest
    /\ response = NoResponse

NextParse ==
    \/ Idle /\ \E found \in {Absent} \cup {Given(v) : v \in PatchAllValues} :
            parse_patch_all(found)
    \/ Idle /\ \E include \in AllFieldLists[MaxQuery + 1] :
                 \E exclude \in AllFieldLists[MaxQuery - QueryLen(include) + 1] :
                    parse_request_fields(include, exclude)
    \/ Idle /\ \E query \in Queries : parse_query_fields(query)
    \/ Idle /\ \E params \in QueryParams, raw \in BOOLEAN : parse_filters(params, raw)
    \/ Idle /\ \E declared \in Declarations, request_fields \in RequestFieldMaps,
                   method \in Methods :
                make_serializer(declared, request_fields, method)
    \/ Idle /\ \E model \in Models, field_name \in ModelFieldNames :
                lookup_model_field(model, field_name)
    \/ Idle /\ \E model \in Models, field_name \in ModelFieldNames :
                check_model_field(model, field_name)
    \/ finish

SpecParse == InitParse /\ [][NextParse]_vars

\* ============================================================ sideloading
\* The related objects of a response: at most MaxObjects of them.
MaxObjects == 2

\* Groups and permissions refer to one another; a group and a permission
\* can have the same primary key.
ObjectCatalog ==
    << [type |-> "group", id |-> 1], [type |-> "permission", id |-> 1],
       [type |-> "group", id |-> 2], [type |-> "permission", id |-> 2] >>
Objects == {ObjectCatalog[i] : i \in 1..MaxObjects}
Types == {o.type : o \in Objects}

\* The objects of set S in the order of the catalog.
InOrder(S) == SelectSeq(ObjectCatalog, LAMBDA o : o \in S)

\* The object graphs: the objects that each object refers to through its
\* sideloaded relations.
Graphs == [Objects -> SUBSET Objects]

\* An object rendered for the envelope: its sideloaded relations are given
\* by the identifiers of the related objects.
render(o, graph) == [type |-> o.type, id |-> o.id, links |-> InOrder(graph[o])]

\* The processor starts on a root object (a user) that refers to the objects
\* of refs: the root is rendered and its related objects are enqueued.
flatten_start(refs, graph) ==
    /\ Idle
    /\ request' = [op |-> "flatten", refs |-> refs, graph |-> graph]
    /\ response' = [root |-> [type |-> "user", id |-> 1, links |-> InOrder(refs)],
                    linked |-> [t \in Types |-> <<>>],
                    seen |-> {},
                    queue |-> InOrder(refs),
                    done |-> FALSE]
    /\ UNCHANGED <<store, pre>>

\* Mutant: an object that was emitted is not marked as seen.
visit_unmarked(r, graph) ==
    LET o == Head(r.queue) IN
    IF o \in r.seen
    THEN [r EXCEPT !.queue = Tail(@)]
    ELSE [r EXCEPT !.queue = Tail(@) \o InOrder(graph[o]),
                   !.linked[o.type] = Append(@, render(o, graph))]

\* One object is taken from the queue: it is skipped when its (type,
\* identifier) was emitted before; otherwise it is rendered, appended to the
\* bucket of its type and marked, and its related objects are enqueued.
visit(r, graph) ==
    LET o == Head(r.queue) IN
    IF o \in r.seen
    THEN [r EXCEPT !.queue = Tail(@)]
    ELSE [r EXCEPT !.queue = Tail(@) \o InOrder(graph[o]),
                   !.seen = @ \cup {o},
                   !.linked[o.type] = Append(@, render(o, graph))]

flatten_step ==
    /\ request.op = "flatten"
    /\ ~response.done
    /\ response.queue # <<>>
    /\ response' = visit(response, request.graph)
    /\ UNCHANGED <<store, pre, request>>

\* The queue is empty: the envelope is complete.
flatten_end ==
    /\ request.op = "flatten"
    /\ ~response.done
    /\ response.queue = <<>>
    /\ response' = [response EXCEPT !.done = TRUE]
    /\ UNCHANGED <<store, pre, request>>

\* The envelope is returned.
flatten_return ==
    /\ request.op = "flatten"
    /\ response.done
    /\ finish

NextFlatten ==
    \/ \E refs \in SUBSET Objects, graph \in Graphs : flatten_start(refs, graph)
    \/ flatten_step
    \/ flatten_end
    \/ flatten_return

\* The processor runs to the end of its queue once it is started.
SpecFlatten ==
    InitParse /\ [][NextFlatten]_vars /\ WF_vars(flatten_step) /\ WF_vars(flatten_end)

\* -------------------------------------------------------------------- C19
Flattening == request.op = "flatten"
Flattened == request.op = "flatten" /\ response.done
\* The identifiers of the entries of a bucket.
Emitted(t) == [i \in 1..Len(response.linked[t]) |->
                  [type |-> response.linked[t][i].type, id |-> response.linked[t][i].id]]

\* No (type, identifier) is twice in linked, every entry is in the bucket of
\* its type, and the references of the root and of the entries are
\* identifiers.
LinkedOnce ==
    Flattening =>
        /\ \A t \in Types : \A i, j \in 1..Len(response.linked[t]) :
                Emitted(t)[i] = Emitted(t)[j] => i = j
        /\ \A t \in Types : \A i \in 1..Len(response.linked[t]) :
                /\ response.linked[t][i].type = t
                /\ Range(response.linked[t][i].links) \subseteq Objects
        /\ Range(response.root.links) \subseteq Objects

====
